---- MODULE Spec2Model ----
(***************************************************************************)
(* A model of uw-pantry-lambda-rust: the entity mapper (User, Pantry <->   *)
(* DynamoDB attribute maps), the credential codec (argon2 password hash),  *)
(* the token issuer/verifier (jsonwebtoken HS256), the bearer-token        *)
(* middleware and the GraphQL resolvers over the Users table.              *)
(*                                                                         *)
(* Three specifications share the variables:                               *)
(*   SpecModels  the structs of src/models and their pure conversions      *)
(*   SpecAuth    src/auth: create_token, validate_token, auth_middleware   *)
(*   Spec        src/schema + src/db: resolvers over the Users table       *)
(***************************************************************************)
EXTENDS Integers, Sequences, FiniteSets, TLC

VARIABLES
    now,        \* the system clock, whole seconds since the epoch
    user,       \* SpecModels: the User struct at hand (Option)
    pantry,     \* SpecModels: the Pantry struct at hand (Option)
    item,       \* SpecModels: the attribute map last written by to_item (Option)
    parsed,     \* SpecModels: the result of the last from_item (call record)
    made,       \* SpecModels: the last User::new call (password in, Result out)
    verdict,    \* SpecModels: the last verify_password call
    updated,    \* SpecModels: the last update_password call
    drawn,      \* SpecModels: the salts SaltString::generate has returned
    secret,     \* SpecAuth: the process environment's JWT_SECRET (Option)
    startSecret, \* SpecAuth: the environment's JWT_SECRET at process start
    issued,     \* SpecAuth: the create_token calls that returned a token
    authOut,    \* SpecAuth: the last validate_token / auth_middleware call
    tables,     \* Spec: the store's tables, name -> key schema
    usersTable, \* Spec: the items of the Users table
    returned,   \* Spec: the users create_user has returned to a caller
    reply,      \* Spec: the last resolver call and its result
    dbUrl,      \* SpecMain: the process environment's DB_URL (Option)
    phase,      \* SpecMain: where main is: starting, configured, serving, exited
    next_user_id, \* SpecMain: the value in AppState's Mutex<u64>
    id_guard,   \* SpecMain: the call holding the mutex (Option)
    calls,      \* SpecMain: each create_user call of main.rs, where it is
    prov,       \* SpecProvision: each service instance, where it is
    requests    \* SpecProvision: the create_table requests sent

vars == <<now, user, pantry, item, parsed, made, verdict, updated, drawn,
          secret, startSecret,
          issued, authOut, tables, usersTable, returned, reply,
          dbUrl, phase, next_user_id, id_guard, calls, prov, requests>>

modelVars == <<user, pantry, item, parsed, made, verdict, updated, drawn>>
authVars  == <<secret, startSecret, issued, authOut>>
storeVars == <<tables, usersTable, returned, reply>>
mainVars  == <<dbUrl, phase, next_user_id, id_guard, calls>>
provVars  == <<prov, requests>>
bootVars  == <<mainVars, provVars>>

-----------------------------------------------------------------------------
(* Bounds and sample values                                                *)

\* the latest second a sampled timestamp of SpecModels may carry
MaxStamp == 1

\* sub-second parts (nanoseconds) a clock reading may carry
Fracs == {0, 500}

Ids        == {"u1", "u2"}
Emails     == {"a@b.com", "c@d.com"}
Passwords  == {"pw1", "pw2"}
Salts      == {"s1", "s2", "s3"}
PantryIds  == {"p1"}
Units      == {"Apt 2"}

\* Option<T>
None    == [some |-> FALSE]
Some(v) == [some |-> TRUE, v |-> v]

\* Result<T, E>
Ok(v)  == [ok |-> TRUE, v |-> v]
Err(e) == [ok |-> FALSE, e |-> e]

\* a call that has not happened yet
NoCall == [called |-> FALSE]

-----------------------------------------------------------------------------
(* aws_sdk_dynamodb::types::AttributeValue and attribute maps              *)

S(v) == [t |-> "S", v |-> v]
M(m) == [t |-> "M", v |-> m]
N(v) == [t |-> "N", v |-> v]

\* HashMap::get followed by AttributeValue::as_s: the string, if the key is
\* present and holds the S variant
get_s(map, k) ==
    IF k \in DOMAIN map /\ map[k].t = "S" THEN Some(map[k].v) ELSE None

\* HashMap::get followed by AttributeValue::as_m
get_m(map, k) ==
    IF k \in DOMAIN map /\ map[k].t = "M" THEN Some(map[k].v) ELSE None

\* the empty HashMap
EmptyMap == [k \in {} |-> S("")]

\* HashMap::insert
insert(map, k, v) == [x \in (DOMAIN map) \cup {k} |-> IF x = k THEN v ELSE map[x]]

-----------------------------------------------------------------------------
(* chrono::DateTime<Utc>: Display (to_string) and FromStr (parse)          *)

Timestamps == [secs : 0..MaxStamp, frac : Fracs]

\* DateTime<Utc>::to_string(): "YYYY-MM-DD HH:MM:SS[.fffffffff] UTC"; the text
\* carries the full sub-second part
DateTimeToString(ts) == [fmt |-> "display", secs |-> ts.secs, frac |-> ts.frac]

\* str::parse::<DateTime<Utc>>(): accepts RFC 3339 and its relaxed forms, the
\* Display form among them; anything else is an error
ParseDateTime(s) ==
    IF s.fmt \in {"display", "rfc3339"}
    THEN Ok([secs |-> s.secs, frac |-> s.frac])
    ELSE Err("ParseError")

-----------------------------------------------------------------------------
(* argon2 password hashing (PHC strings)                                   *)

\* a digest that does not depend on the password
Argon2DigestSaltOnly(password, salt) == <<"", salt>>

\* the digest of a password under a salt: an ideal hash, injective in both
Argon2Digest(password, salt) == <<password, salt>>

\* Argon2::default().hash_password(password, salt).to_string()
HashPassword(password, salt) ==
    [alg |-> "argon2id", salt |-> salt, digest |-> Argon2Digest(password, salt)]

\* PasswordHash::new: a PHC string parses when it names an algorithm
PasswordHashParses(h) == h.alg # "malformed"

\* Argon2::default().verify_password(password, parsed_hash).is_ok()
Argon2Verifies(password, h) ==
    /\ h.alg \in {"argon2id", "argon2i", "argon2d"}
    /\ h.digest = Argon2Digest(password, h.salt)

\* the hashes of users made earlier, under the salts drawn for them
EarlierSalts == {"s1", "s2"}
PasswordHashes == {HashPassword(p, s) : p \in Passwords, s \in EarlierSalts}

\* strings that are no PHC string: the empty string, and a hash cut short
\* (what is left of its salt and digest is still there)
MalformedHashes ==
    {[alg |-> "malformed", salt |-> "", digest |-> <<"", "">>],
     [alg |-> "malformed", salt |-> "s1", digest |-> Argon2Digest("pw1", "s1")]}

\* what a user's password_hash field may hold
StoredHashes == PasswordHashes \cup MalformedHashes

-----------------------------------------------------------------------------
(* src/models/user.rs                                                      *)

Users == [id : Ids, email : Emails, password_hash : StoredHashes,
          first_name : {"Ann"}, last_name : {"Lee"},
          pantry_id : {None} \cup {Some(p) : p \in PantryIds},
          created_at : Timestamps, updated_at : Timestamps]

\* User::new, given the clock reading, the generated salt and whether argon2
\* reports an error
User_new(id, email, password, first_name, last_name, t, salt, hashErr) ==
    IF hashErr
    THEN Err("Failed to hash password")
    ELSE Ok([id |-> id, email |-> email,
             password_hash |-> HashPassword(password, salt),
             first_name |-> first_name, last_name |-> last_name,
             pantry_id |-> None, created_at |-> t, updated_at |-> t])

\* the key User::to_item writes the pantry reference under
PantryKeyWritten == "pantry_id"

\* the key User::from_item reads the pantry reference from
PantryKeyRead == "pantry"

\* User::to_item
User_to_item(u) ==
    LET i1 == insert(EmptyMap, "id", S(u.id))
        i2 == insert(i1, "email", S(u.email))
        i3 == insert(i2, "password_hash", S(u.password_hash))
        i4 == insert(i3, "first_name", S(u.first_name))
        i5 == insert(i4, "last_name", S(u.last_name))
        i6 == IF u.pantry_id.some
              THEN insert(i5, PantryKeyWritten, S(u.pantry_id.v))
              ELSE i5
        i7 == insert(i6, "created_at", S(DateTimeToString(u.created_at)))
    IN  insert(i7, "updated_at", S(DateTimeToString(u.updated_at)))

\* a timestamp attribute as from_item reads it: the parsed value, or the
\* current time t when the key is missing, not a string or does not parse
read_timestamp(map, k, t) ==
    LET s == get_s(map, k)
    IN  IF s.some /\ ParseDateTime(s.v).ok THEN ParseDateTime(s.v).v ELSE t

\* User::from_item, given the clock reading t
User_from_item(map, t) ==
    IF \E k \in {"id", "email", "password_hash", "first_name", "last_name"} :
          ~get_s(map, k).some
    THEN None
    ELSE Some([id |-> get_s(map, "id").v,
               email |-> get_s(map, "email").v,
               password_hash |-> get_s(map, "password_hash").v,
               first_name |-> get_s(map, "first_name").v,
               last_name |-> get_s(map, "last_name").v,
               pantry_id |-> get_s(map, PantryKeyRead),
               created_at |-> read_timestamp(map, "created_at", t),
               updated_at |-> read_timestamp(map, "updated_at", t)])

\* a verify_password that compares digests without parsing the hash first
verify_password_unparsed(u, password) ==
    u.password_hash.digest = Argon2Digest(password, u.password_hash.salt)

\* User::verify_password
verify_password(u, password) ==
    IF ~PasswordHashParses(u.password_hash)
    THEN FALSE
    ELSE Argon2Verifies(password, u.password_hash)

\* the order of two DateTime<Utc> values
TimeLeq(a, b) == a.secs < b.secs \/ (a.secs = b.secs /\ a.frac <= b.frac)

\* an update_password that keeps the old updated_at
update_password_stale(u, password, t, salt, hashErr) ==
    IF hashErr
    THEN [result |-> Err("Failed to hash password"), user |-> u]
    ELSE [result |-> Ok("unit"),
          user |-> [u EXCEPT !.password_hash = HashPassword(password, salt)]]

\* an update_password that hashes under the salt of the hash it replaces
update_password_same_salt(u, password, t, salt, hashErr) ==
    IF hashErr
    THEN [result |-> Err("Failed to hash password"), user |-> u]
    ELSE [result |-> Ok("unit"),
          user |-> [u EXCEPT
                      !.password_hash =
                          HashPassword(password, u.password_hash.salt),
                      !.updated_at = t]]

\* User::update_password, given the generated salt, whether argon2 reports an
\* error and the clock reading: the result and the struct after the call.
\* The ? returns before either field is assigned.
update_password(u, password, t, salt, hashErr) ==
    IF hashErr
    THEN [result |-> Err("Failed to hash password"), user |-> u]
    ELSE [result |-> Ok("unit"),
          user |-> [u EXCEPT !.password_hash = HashPassword(password, salt),
                             !.updated_at = t]]

-----------------------------------------------------------------------------
(* src/models/pantry.rs                                                    *)

OptStatus == {"OptStatus::T1", "OptStatus::T2", "OptStatus::T3"}

\* OptStatus::to_string
OptStatus_to_string(o) ==
    CASE o = "OptStatus::T1" -> "T1"
      [] o = "OptStatus::T2" -> "T2"
      [] o = "OptStatus::T3" -> "T3"

\* a from_string that falls back to a default level
OptStatus_from_string_defaulting(s) ==
    CASE s = "T1" -> Ok("OptStatus::T1")
      [] s = "T2" -> Ok("OptStatus::T2")
      [] s = "T3" -> Ok("OptStatus::T3")
      [] OTHER    -> Ok("OptStatus::T1")

\* OptStatus::from_string
OptStatus_from_string(s) ==
    CASE s = "T1" -> Ok("OptStatus::T1")
      [] s = "T2" -> Ok("OptStatus::T2")
      [] s = "T3" -> Ok("OptStatus::T3")
      [] OTHER    -> Err("Invalid opt status from pantry item")

\* serde_json::to_string::<OptStatus>: the derived Serialize of a unit variant
\* under #[serde(rename_all = "snake_case")] is the renamed variant as a JSON
\* string, quotes included
OptStatus_serde_json(o) ==
    CASE o = "OptStatus::T1" -> Ok("\"t1\"")
      [] o = "OptStatus::T2" -> Ok("\"t2\"")
      [] o = "OptStatus::T3" -> Ok("\"t3\"")

Addresses == [street : {"1 Main St"}, unit : {None} \cup {Some(x) : x \in Units},
              city : {"Marquette"}, state : {"MI"}, zipcode : {"49855"}]

Pantries == [id : PantryIds, name : {"Pantry"}, is_self_managed : {"true", "false"},
             opt_status : OptStatus, phone : {"555"}, email : {"p@q.org"},
             address : Addresses,
             created_at : Timestamps, updated_at : Timestamps]

\* the address sub-map Pantry::to_item builds
Address_to_map(a) ==
    LET a1 == insert(EmptyMap, "street", S(a.street))
        a2 == IF a.unit.some THEN insert(a1, "unit", S(a.unit.v)) ELSE a1
        a3 == insert(a2, "city", S(a.city))
        a4 == insert(a3, "state", S(a.state))
    IN  insert(a4, "zipcode", S(a.zipcode))

\* Pantry::to_item
Pantry_to_item(p) ==
    LET opt_status_string == OptStatus_serde_json(p.opt_status)
        i1 == insert(EmptyMap, "id", S(p.id))
        i2 == insert(i1, "name", S(p.name))
        i3 == insert(i2, "is_self_managed", S(p.is_self_managed))
        i4 == insert(i3, "phone", S(p.phone))
        i5 == insert(i4, "email", S(p.email))
        i6 == insert(i5, "address", M(Address_to_map(p.address)))
        i7 == IF opt_status_string.ok
              THEN insert(i6, "opt_status", S(opt_status_string.v))
              ELSE i6
        i8 == insert(i7, "created_at", S(DateTimeToString(p.created_at)))
    IN  insert(i8, "updated_at", S(DateTimeToString(p.updated_at)))

\* the address of Pantry::from_item: every `get(..)?` and `as_s().ok()?`
\* returns None from the whole function; unit is `get("unit")?.as_s().ok()`
Address_from_map(m) ==
    IF \/ \E k \in {"street", "city", "state", "zipcode"} : ~get_s(m, k).some
       \/ "unit" \notin DOMAIN m
    THEN None
    ELSE Some([street |-> get_s(m, "street").v,
               unit |-> get_s(m, "unit"),
               city |-> get_s(m, "city").v,
               state |-> get_s(m, "state").v,
               zipcode |-> get_s(m, "zipcode").v])

\* Pantry::from_item, given the clock reading t
Pantry_from_item(map, t) ==
    IF \/ \E k \in {"id", "name", "is_self_managed", "phone", "email",
                    "opt_status"} : ~get_s(map, k).some
       \/ ~get_m(map, "address").some
    THEN None
    ELSE IF ~Address_from_map(get_m(map, "address").v).some
    THEN None
    ELSE IF ~OptStatus_from_string(get_s(map, "opt_status").v).ok
    THEN None
    ELSE Some([id |-> get_s(map, "id").v,
               name |-> get_s(map, "name").v,
               is_self_managed |-> get_s(map, "is_self_managed").v,
               opt_status |-> OptStatus_from_string(get_s(map, "opt_status").v).v,
               phone |-> get_s(map, "phone").v,
               email |-> get_s(map, "email").v,
               address |-> Address_from_map(get_m(map, "address").v).v,
               created_at |-> read_timestamp(map, "created_at", t),
               updated_at |-> read_timestamp(map, "updated_at", t)])

-----------------------------------------------------------------------------
(* src/auth/jwt.rs, over jsonwebtoken's encode and decode                  *)

\* the first second of the clock of SpecAuth and Spec
StartTime == 100

\* a token lives 24 * 3600 seconds
TokenTTL == 86400

\* Validation::default().leeway, in seconds
Leeway == 60

Secrets == {"k1", "k2"}

\* AppError
AppError(kind, msg) == [kind |-> kind, msg |-> msg]

\* Claims
Claims(sub, email, exp) == [sub |-> sub, email |-> email, exp |-> exp]

\* the HMAC-SHA256 of a signing input under a key: an ideal MAC, equal only
\* for equal key and input
Hmac(key, alg, claims) == [key |-> key, alg |-> alg, claims |-> claims]

\* a compact token `header.payload.signature`: its number of dot-separated
\* segments, the header's alg, the payload and the signature
Token(segs, alg, claims, mac) ==
    [segs |-> segs, alg |-> alg, claims |-> claims, mac |-> mac]

\* encode(&Header::default(), &claims, &EncodingKey::from_secret(key))
encode(claims, key) == Token(3, "HS256", claims, Hmac(key, "HS256", claims))

\* create_token with the claims' sub and email exchanged
create_token_swapped(user_id, email, env, t) ==
    IF ~env.some
    THEN Err(AppError("EnvError", "NotPresent"))
    ELSE Ok(encode(Claims(email, user_id, t + TokenTTL), env.v))

\* create_token, given the environment's JWT_SECRET and the clock reading
create_token(user_id, email, env, t) ==
    IF ~env.some
    THEN Err(AppError("EnvError", "NotPresent"))
    ELSE Ok(encode(Claims(user_id, email, t + TokenTTL), env.v))

\* a signature check that accepts every signature
SignatureAlwaysValid(token, key) == TRUE

\* decode's verify_signature: the signature is the MAC of header and payload
\* under the key
SignatureValid(token, key) == token.mac = Hmac(key, token.alg, token.claims)

\* an expiry check that never fires
NeverExpired(exp, t) == FALSE

\* decode's validate: a token is expired when exp < now - leeway
Expired(exp, t) == exp < t - Leeway

\* decode::<Claims>(token, &DecodingKey::from_secret(key), &Validation::default())
decode(token, key, t) ==
    IF token.segs # 3 THEN Err("InvalidToken")
    ELSE IF token.alg # "HS256" THEN Err("InvalidAlgorithm")
    ELSE IF ~SignatureValid(token, key) THEN Err("InvalidSignature")
    ELSE IF Expired(token.claims.exp, t) THEN Err("ExpiredSignature")
    ELSE Ok(token.claims)

\* validate_token, given the environment's JWT_SECRET and the clock reading
\* a validate_token that also asks for the token's subject to be a stored user
validate_token_stored_subject(token, env, t) ==
    IF ~env.some
    THEN Err(AppError("EnvError", "NotPresent"))
    ELSE LET token_data == decode(token, env.v, t)
         IN  IF ~token_data.ok
             THEN Err(AppError("Unauthorized", token_data.e))
             ELSE IF \E i \in usersTable : get_s(i, "id") = Some(token_data.v.sub)
             THEN Ok(token_data.v)
             ELSE Err(AppError("Unauthorized", "UnknownSubject"))

\* validate_token, given the token, the environment's JWT_SECRET and the clock
validate_token(token, env, t) ==
    IF ~env.some
    THEN Err(AppError("EnvError", "NotPresent"))
    ELSE LET token_data == decode(token, env.v, t)
         IN  IF token_data.ok
             THEN Ok(token_data.v)
             ELSE Err(AppError("Unauthorized", token_data.e))

-----------------------------------------------------------------------------
(* src/auth/middleware.rs                                                  *)

\* the request's Authorization header: missing, not visible ASCII (to_str
\* fails), or a text, given as its first seven bytes and the rest
NoHeader         == [kind |-> "missing", head |-> "", rest |-> Token(1, "", Claims("", "", 0), Hmac("", "", Claims("", "", 0)))]
NonTextHeader    == [kind |-> "nontext", head |-> "", rest |-> NoHeader.rest]
TextHeader(h, r) == [kind |-> "text", head |-> h, rest |-> r]

\* auth_middleware: whether next.run was called, the claims inserted into the
\* request's extensions, and the result
auth_middleware(header, env, t) ==
    IF header.kind # "text"
    THEN [ran |-> FALSE, ext |-> None,
          result |-> Err(AppError("Unauthorized", "No authorization header"))]
    ELSE IF header.head # "Bearer "
    THEN [ran |-> FALSE, ext |-> None,
          result |-> Err(AppError("Unauthorized", "Invalid token format"))]
    ELSE LET claims == validate_token(header.rest, env, t)
         IN  IF ~claims.ok
             THEN [ran |-> FALSE, ext |-> None, result |-> Err(claims.e)]
             ELSE [ran |-> TRUE, ext |-> Some(claims.v), result |-> Ok("Response")]

-----------------------------------------------------------------------------
(* SpecModels: the structs of src/models and the calls made on them        *)

\* Utc::now(): the clock's second and a sub-second part
UtcNow == {[secs |-> now, frac |-> f] : f \in Fracs}

InitModelVars ==
    /\ \/ user \in {Some(u) : u \in Users} /\ pantry = None
       \/ user = None /\ pantry \in {Some(p) : p \in Pantries}
    /\ item = NoCall
    /\ parsed = NoCall
    /\ made = NoCall
    /\ verdict = NoCall
    /\ updated = NoCall
    /\ drawn = IF user.some THEN {user.v.password_hash.salt} \cap Salts ELSE {}

InitAuthIdle ==
    /\ secret = None
    /\ startSecret = None
    /\ issued = {}
    /\ authOut = NoCall

InitStoreIdle ==
    /\ tables = EmptyMap
    /\ usersTable = {}
    /\ returned = {}
    /\ reply = NoCall

\* the create_user calls of main.rs that may be under way at once
MaxCallers == 3
Callers == 1..MaxCallers

\* Mutex::new(1337): the first id
FirstUserId == 1337

\* a create_user call that has not been made
IdleCall == [pc |-> "idle", username |-> "", order |-> 0, id |-> 0]

InitMainIdle ==
    /\ dbUrl = None
    /\ phase = "starting"
    /\ next_user_id = FirstUserId
    /\ id_guard = None
    /\ calls = [c \in Callers |-> IdleCall]

\* the service instances that provision at the same time
Instances == {1, 2}

\* an instance that has not started to provision
IdleInstance == [pc |-> "idle", fn |-> "", listing |-> {}, result |-> NoCall]

InitProvIdle ==
    /\ prov = [i \in Instances |-> IdleInstance]
    /\ requests = {}

InitBootIdle == InitMainIdle /\ InitProvIdle

InitModels ==
    /\ now \in 0..MaxStamp
    /\ InitModelVars
    /\ InitAuthIdle
    /\ InitStoreIdle
    /\ InitBootIdle

\* a second passes
TickModels ==
    /\ now < MaxStamp
    /\ now' = now + 1
    /\ UNCHANGED <<modelVars, authVars, storeVars, bootVars>>

\* a call of User::new; the struct at hand becomes the new user, and there
\* is no struct at hand when the call fails. The call starts from cleared
\* call records: it clears them itself, so the states reached are the same
\* as without this condition
CallUserNew ==
    \E id \in Ids, email \in Emails, password \in Passwords, t \in UtcNow,
       salt \in Salts \ drawn, hashErr \in BOOLEAN :
        LET r == User_new(id, email, password, "Ann", "Lee", t, salt, hashErr)
        IN  /\ item = NoCall /\ parsed = NoCall /\ verdict = NoCall
            /\ updated = NoCall
            /\ drawn' = drawn \cup {salt}
            /\ updated' = NoCall
            /\ made' = [called |-> TRUE, password |-> password, result |-> r,
                         earlier |-> drawn]
            /\ user' = IF r.ok THEN Some(r.v) ELSE None
            /\ pantry' = None
            /\ item' = NoCall
            /\ parsed' = NoCall
            /\ verdict' = NoCall
            /\ UNCHANGED <<now, authVars, storeVars, bootVars>>

\* Each call clears the records of the calls before it that it has nothing
\* to do with, and from_item is recorded once per written map: the states
\* reached by a from_item call are the same as without this condition.

\* a call of User::to_item on the user at hand
CallUserToItem ==
    /\ user.some
    /\ item' = [called |-> TRUE, kind |-> "User", of |-> user.v,
                map |-> User_to_item(user.v)]
    /\ parsed' = NoCall
    /\ verdict' = NoCall
    /\ UNCHANGED <<now, user, pantry, made, updated, drawn, authVars, storeVars, bootVars>>

\* HashMap::remove
remove(map, k) == [x \in (DOMAIN map) \ {k} |-> map[x]]

\* a text that is no timestamp
NotATimeText == [fmt |-> "text", secs |-> 0, frac |-> 0]

\* what may have happened to one attribute of a stored item before it is
\* read back: nothing, the attribute is gone, it holds its value as another
\* variant than S or M, or (a timestamp) it holds a text that is no timestamp
Damage(map, how, k) ==
    CASE how = "intact" -> map
      [] how = "remove" -> remove(map, k)
      [] how = "retype" -> IF k \in DOMAIN map
                           THEN insert(map, k, N(map[k].v))
                           ELSE map
      [] how = "garble" -> insert(map, k, S(NotATimeText))

\* the same for an attribute of the address sub-map
DamageAddress(map, how, k) ==
    IF get_m(map, "address").some
    THEN insert(map, "address", M(Damage(map["address"].v, how, k)))
    ELSE map

UserDamages ==
    {<<"intact", "id">>}
        \cup {<<how, k>> : how \in {"remove", "retype"},
                         k \in {"id", "email", "password_hash", "first_name",
                                "last_name", "created_at", "updated_at"}}
        \cup {<<"garble", k>> : k \in {"created_at", "updated_at"}}

PantryDamages ==
    {<<"intact", "id">>}
        \cup {<<how, k>> : how \in {"remove", "retype"},
                         k \in {"opt_status", "address", "unit", "street",
                                "created_at", "updated_at"}}
        \cup {<<"garble", k>> : k \in {"created_at", "updated_at"}}

\* the opt_status texts a stored Pantry item may carry: the one to_item
\* wrote ("written"), or one of these
OptStatusTexts == {"written", "T1", "T9"}

\* a call of User::from_item on the map last written by User::to_item, or
\* on a damaged copy of it
CallUserFromItem ==
    /\ item.called /\ item.kind = "User" /\ parsed = NoCall
    /\ \E t \in UtcNow, d \in UserDamages :
         LET map == Damage(item.map, d[1], d[2])
         IN  parsed' = [called |-> TRUE, kind |-> "User", from |-> map,
                        at |-> t, result |-> User_from_item(map, t)]
    /\ UNCHANGED <<now, user, pantry, item, made, verdict, updated, drawn,
                   authVars, storeVars, bootVars>>

\* a call of Pantry::to_item on the pantry at hand
CallPantryToItem ==
    /\ pantry.some
    /\ item' = [called |-> TRUE, kind |-> "Pantry", of |-> pantry.v,
                map |-> Pantry_to_item(pantry.v)]
    /\ parsed' = NoCall
    /\ verdict' = NoCall
    /\ UNCHANGED <<now, user, pantry, made, updated, drawn, authVars, storeVars, bootVars>>

\* a call of Pantry::from_item on the map last written by Pantry::to_item,
\* or on a copy of it with another opt_status text, a damaged attribute, or
\* both
CallPantryFromItem ==
    /\ item.called /\ item.kind = "Pantry" /\ parsed = NoCall
    /\ \E t \in UtcNow, o \in OptStatusTexts, d \in PantryDamages :
         LET m1  == IF o = "written" THEN item.map
                    ELSE insert(item.map, "opt_status", S(o))
             map == IF d[2] \in {"unit", "street"}
                    THEN DamageAddress(m1, d[1], d[2])
                    ELSE Damage(m1, d[1], d[2])
         IN  parsed' = [called |-> TRUE, kind |-> "Pantry", from |-> map,
                        at |-> t, result |-> Pantry_from_item(map, t)]
    /\ UNCHANGED <<now, user, pantry, item, made, verdict, updated, drawn,
                   authVars, storeVars, bootVars>>

\* a call of verify_password on the user at hand
CallVerifyPassword ==
    /\ user.some
    /\ \E password \in Passwords :
         verdict' = [called |-> TRUE, hash |-> user.v.password_hash,
                     password |-> password,
                     ok |-> verify_password(user.v, password)]
    /\ item' = NoCall
    /\ parsed' = NoCall
    /\ updated' = NoCall
    /\ UNCHANGED <<now, user, pantry, made, drawn, authVars, storeVars, bootVars>>

\* a call of update_password on the user at hand. SaltString::generate
\* returns 128 random bits, modelled as a value it has not returned before;
\* the clock does not run backwards, so its reading is not earlier than the
\* stamp the user carries.
CallUpdatePassword ==
    /\ user.some
    /\ item = NoCall /\ parsed = NoCall /\ verdict = NoCall
    /\ \E password \in Passwords, t \in UtcNow, salt \in Salts \ drawn,
          hashErr \in BOOLEAN :
         LET r == update_password(user.v, password, t, salt, hashErr)
         IN  /\ TimeLeq(user.v.updated_at, t)
             /\ updated' = [called |-> TRUE, password |-> password,
                            before |-> user.v, at |-> t, earlier |-> drawn,
                            result |-> r.result, after |-> r.user]
             /\ user' = Some(r.user)
             /\ drawn' = drawn \cup {salt}
    /\ UNCHANGED <<now, pantry, item, parsed, made, verdict, authVars, storeVars, bootVars>>

NextModels ==
    \/ TickModels
    \/ CallUserNew
    \/ CallUserToItem
    \/ CallUserFromItem
    \/ CallPantryToItem
    \/ CallPantryFromItem
    \/ CallVerifyPassword

SpecModels == InitModels /\ [][NextModels]_vars

-----------------------------------------------------------------------------
(* Claims about the entity mapper and the credential codec (SpecModels)    *)

\* C1: for every valid Pantry p, Pantry::from_item(Pantry::to_item(p)) is p,
\* and the opt_status that to_item writes is one of "T1", "T2", "T3".
C1_PantryRoundTrip ==
    /\ (item.called /\ item.kind = "Pantry") =>
          get_s(item.map, "opt_status") \in {Some("T1"), Some("T2"), Some("T3")}
    /\ (parsed.called /\ parsed.kind = "Pantry" /\ item.called
          /\ item.kind = "Pantry" /\ parsed.from = item.map) =>
          parsed.result = Some(item.of)

\* C2: for every valid User u, the pantry reference set or not,
\* User::from_item(User::to_item(u)) is u in every field.
C2_UserRoundTrip ==
    (parsed.called /\ parsed.kind = "User" /\ item.called
       /\ item.kind = "User" /\ parsed.from = item.map) =>
       parsed.result = Some(item.of)

\* C10: for a User made by User::new with password p, verify_password(p) is
\* true and verify_password(q) is false for every other q.
C10_VerifyPassword ==
    (made.called /\ made.result.ok /\ verdict.called
       /\ verdict.hash = made.result.v.password_hash) =>
       (verdict.ok <=> verdict.password = made.password)

\* C10's case: a user made by User::new has had both its own password
\* verified and another one refused
C10_Witness ==
    /\ made.called /\ made.result.ok /\ verdict.called
    /\ verdict.hash = made.result.v.password_hash
    /\ verdict.password # made.password
    /\ ~verdict.ok

\* C11: verify_password returns false, for every password, whenever the
\* user's stored password_hash is not a well-formed encoded hash string.
C11_MalformedHashRefused ==
    (verdict.called /\ ~PasswordHashParses(verdict.hash)) => verdict.ok = FALSE

\* C11's case: a hash cut short is refused for the very password whose
\* digest it still carries
C11_Witness ==
    /\ verdict.called
    /\ verdict.hash \in MalformedHashes
    /\ verdict.hash.digest = Argon2Digest(verdict.password, verdict.hash.salt)
    /\ ~verdict.ok

\* the attributes User::from_item requires
UserRequired == {"id", "email", "password_hash", "first_name", "last_name"}

\* C12: from_item returns an entity or no result; User::from_item returns no
\* result when any of id, email, password_hash, first_name, last_name is
\* missing or not a string, and Pantry::from_item returns no result when
\* opt_status is a string other than "T1", "T2", "T3".
C12_FromItemTotal ==
    parsed.called =>
        /\ parsed.result = None \/ parsed.result.some
        /\ (parsed.kind = "User"
              /\ \E k \in UserRequired : ~get_s(parsed.from, k).some) =>
              parsed.result = None
        /\ (parsed.kind = "Pantry"
              /\ get_s(parsed.from, "opt_status").some
              /\ get_s(parsed.from, "opt_status").v \notin {"T1", "T2", "T3"}) =>
              parsed.result = None

\* C12's case: a Pantry item that is valid but for its opt_status "T9" has
\* been read, with no result
C12_Witness ==
    /\ parsed.called /\ parsed.kind = "Pantry"
    /\ parsed.from = insert(item.map, "opt_status", S("T9"))
    /\ item.of.address.unit.some
    /\ parsed.result = None

\* whether a Pantry item is valid in all but its timestamps: the required
\* attributes are strings, opt_status is a level, the address is a map whose
\* street, city, state and zipcode are strings and whose unit, if there is
\* one, is a string
PantryFieldsValid(map) ==
    /\ \A k \in {"id", "name", "is_self_managed", "phone", "email"} :
          get_s(map, k).some
    /\ get_s(map, "opt_status") \in {Some("T1"), Some("T2"), Some("T3")}
    /\ get_m(map, "address").some
    /\ \A k \in {"street", "city", "state", "zipcode"} :
          get_s(map["address"].v, k).some
    /\ "unit" \in DOMAIN map["address"].v => get_s(map["address"].v, "unit").some

\* C13: for a Pantry with no unit, to_item writes an address sub-map with no
\* unit key; and Pantry::from_item on an otherwise valid item whose address
\* sub-map has no unit key returns a Pantry with unit absent.
C13_UnitAbsent ==
    /\ (item.called /\ item.kind = "Pantry" /\ ~item.of.address.unit.some) =>
          "unit" \notin DOMAIN item.map["address"].v
    /\ (parsed.called /\ parsed.kind = "Pantry" /\ PantryFieldsValid(parsed.from)
          /\ "unit" \notin DOMAIN parsed.from["address"].v) =>
          /\ parsed.result.some
          /\ parsed.result.v.address.unit = None

\* whether a timestamp attribute is missing, not a string, or not parseable
BadTimestamp(map, k) ==
    \/ ~get_s(map, k).some
    \/ ~ParseDateTime(get_s(map, k).v).ok

\* C14: when created_at or updated_at is missing, not a string or not
\* parseable, and all other fields are valid, User::from_item and
\* Pantry::from_item return the record with that timestamp set to the
\* current time.
C14_TimestampFallback ==
    parsed.called =>
        \A k \in {"created_at", "updated_at"} :
            (/\ BadTimestamp(parsed.from, k)
             /\ IF parsed.kind = "User"
                THEN \A f \in UserRequired : get_s(parsed.from, f).some
                ELSE PantryFieldsValid(parsed.from)) =>
                /\ parsed.result.some
                /\ parsed.result.v[k] = parsed.at

------------------------------------------------------------------------------
(* SpecPasswords: calls of User::new, update_password and verify_password  *)
(* on the user at hand while the clock advances                            *)

InitPasswords ==
    /\ InitModels
    /\ user.some

NextPasswords ==
    \/ TickModels
    \/ CallUserNew
    \/ CallUpdatePassword
    \/ CallVerifyPassword

SpecPasswords == InitPasswords /\ [][NextPasswords]_vars

\* the fields update_password leaves alone
UserKept == {"id", "email", "first_name", "last_name", "pantry_id",
             "created_at"}

C26_FreshSalt ==
    /\ (made.called /\ made.result.ok) =>
           made.result.v.password_hash.salt \notin made.earlier
    /\ (updated.called /\ updated.result.ok) =>
           /\ updated.after.password_hash.salt \notin updated.earlier
           /\ updated.after.password_hash # updated.before.password_hash

\* a user made by User::new whose password is updated to the same plaintext
C26_Witness ==
    /\ made.called /\ made.result.ok
    /\ updated.called /\ updated.result.ok
    /\ updated.before.password_hash = made.result.v.password_hash
    /\ updated.password = made.password
    /\ updated.after.password_hash # updated.before.password_hash

-----------------------------------------------------------------------------
(* SpecAuth: calls of create_token, validate_token and auth_middleware     *)
(* while the clock advances and the environment's JWT_SECRET changes       *)

InitModelIdle ==
    /\ user = None
    /\ pantry = None
    /\ item = NoCall
    /\ parsed = NoCall
    /\ made = NoCall
    /\ verdict = NoCall
    /\ updated = NoCall
    /\ drawn = {}

InitAuth ==
    /\ now = StartTime
    /\ secret \in {None} \cup {Some(k) : k \in Secrets}
    /\ startSecret = secret
    /\ issued = NoCall
    /\ authOut = NoCall
    /\ InitModelIdle
    /\ InitStoreIdle
    /\ InitBootIdle

\* the empty string as a token: one segment, nothing in it
EmptyToken == NoHeader.rest

\* what a client may present in place of a token it was issued
TamperKinds == {"intact", "payload", "exp", "signature", "resigned",
                "alg_none", "truncated", "empty"}

Tamper(tok, how, k) ==
    CASE how = "intact"    -> tok
      [] how = "payload"   -> [tok EXCEPT !.claims.sub =
                                  CHOOSE i \in Ids \cup Emails : i # @]
      [] how = "exp"       -> [tok EXCEPT !.claims.exp = @ + TokenTTL]
      [] how = "signature" -> [tok EXCEPT !.mac.key = "corrupt"]
      [] how = "resigned"  -> encode(tok.claims, k)
      [] how = "alg_none"  -> Token(3, "none", tok.claims, Hmac("", "none", tok.claims))
      [] how = "truncated" -> [tok EXCEPT !.segs = 2]
      [] how = "empty"     -> EmptyToken

\* the instants the clock is read at: the start, a second later, and around
\* the expiry of a token issued at the start
Instants ==
    {StartTime + d : d \in {0, 1, TokenTTL, TokenTTL + 1, TokenTTL + Leeway,
                            TokenTTL + Leeway + 1}}

\* the clock advances to a later instant
TickAuth ==
    \E t \in Instants :
        /\ t > now
        /\ now' = t
        /\ authOut' = NoCall
        /\ UNCHANGED <<secret, startSecret, issued, modelVars, storeVars, bootVars>>

\* JWT_SECRET is set, changed or removed in the process environment
SetEnv ==
    \E v \in {None} \cup {Some(k) : k \in Secrets} :
        /\ v # secret
        /\ secret' = v
        /\ authOut' = NoCall
        /\ UNCHANGED <<now, startSecret, issued, modelVars, storeVars, bootVars>>

\* a call of create_token
CallCreateToken ==
    \E user_id \in Ids, email \in Emails :
        /\ issued' = [called |-> TRUE, user_id |-> user_id, email |-> email,
                      at |-> now, env |-> secret,
                      subject |-> {i \in usersTable :
                                      get_s(i, "id") = Some(user_id)},
                      result |-> create_token(user_id, email, secret, now)]
        /\ authOut' = NoCall
        /\ UNCHANGED <<now, secret, startSecret, modelVars, storeVars, bootVars>>

\* whether create_token has returned a token
IssuedOk == issued.called /\ issued.result.ok

\* the token a client starts from: the issued one, or the empty string
BaseToken == IF IssuedOk THEN issued.result.v ELSE EmptyToken

\* what a client presents: the issued token tampered with in one of the
\* ways, re-signed under either secret
Presented ==
    {<<how, "k1">> : how \in TamperKinds \ {"resigned"}}
        \cup {<<"resigned", k>> : k \in Secrets}

\* The record authOut holds one call: the clock, the environment and
\* create_token clear it, and a call is recorded into the cleared record; the
\* states reached are the same as without this condition.

\* a call of validate_token on what a client made of the issued token
CallValidateToken ==
    /\ authOut = NoCall
    /\ \E pr \in Presented :
         LET token == Tamper(BaseToken, pr[1], pr[2])
         IN  authOut' = [called |-> TRUE, op |-> "validate_token",
                         how |-> pr[1], key |-> pr[2], token |-> token,
                         at |-> now, env |-> secret,
                         result |-> validate_token(token, secret, now)]
    /\ UNCHANGED <<now, secret, startSecret, issued, modelVars, storeVars, bootVars>>

\* the Authorization headers a request may carry
Headers ==
    {NoHeader, NonTextHeader}
        \cup {TextHeader(h, Tamper(BaseToken, pr[1], pr[2])) :
                h \in {"Bearer ", "Basic ", "bearer "}, pr \in Presented}

\* a request passes through auth_middleware
CallAuthMiddleware ==
    /\ authOut = NoCall
    /\ \E header \in Headers :
         LET out == auth_middleware(header, secret, now)
         IN  authOut' = [called |-> TRUE, op |-> "auth_middleware",
                         header |-> header, at |-> now, env |-> secret,
                         ran |-> out.ran, ext |-> out.ext,
                         result |-> out.result]
    /\ UNCHANGED <<now, secret, startSecret, issued, modelVars, storeVars, bootVars>>

NextAuth ==
    \/ TickAuth
    \/ SetEnv
    \/ CallCreateToken
    \/ CallValidateToken
    \/ CallAuthMiddleware

SpecAuth == InitAuth /\ [][NextAuth]_vars

-----------------------------------------------------------------------------
(* Claims about tokens and the middleware (SpecAuth)                       *)

Validated  == authOut.called /\ authOut.op = "validate_token"
Middleware == authOut.called /\ authOut.op = "auth_middleware"
Unauthorized(r) == ~r.ok /\ r.e.kind = "Unauthorized"

\* C6: auth_middleware runs the inner handler only for a header
\* "Bearer <token>" whose token validate_token accepted, and then the request
\* carries that token's claims; in every other case the handler is not run
\* and the outcome is Unauthorized.
C6_MiddlewareGate ==
    Middleware =>
        LET h == authOut.header
            v == validate_token(h.rest, authOut.env, authOut.at)
        IN  IF h.kind = "text" /\ h.head = "Bearer " /\ v.ok
            THEN authOut.ran /\ authOut.ext = Some(v.v)
            ELSE ~authOut.ran /\ Unauthorized(authOut.result)

\* C7: validate_token(create_token(id, email)) under the same secret and
\* within the validity window returns claims with sub = id and the email.
C7_IssueThenVerify ==
    (Validated /\ IssuedOk /\ authOut.how = "intact"
       /\ authOut.env = issued.env /\ authOut.at <= issued.at + TokenTTL) =>
        /\ authOut.result.ok
        /\ authOut.result.v.sub = issued.user_id
        /\ authOut.result.v.email = issued.email

\* C7's case: a token verified under its secret a token's life after issue
C7_Witness ==
    /\ Validated /\ IssuedOk /\ authOut.how = "intact"
    /\ authOut.env = issued.env
    /\ authOut.at = issued.at + TokenTTL
    /\ authOut.result.ok

\* C8 as stated: the expiry is the issue time plus 24 hours, and
\* validate_token at any time later than the expiry returns Unauthorized.
C8_RejectedAfterExpiry ==
    /\ IssuedOk => issued.result.v.claims.exp = issued.at + 24 * 3600
    /\ (Validated /\ IssuedOk /\ authOut.how = "intact"
          /\ authOut.env = issued.env
          /\ authOut.at > issued.result.v.claims.exp) =>
          Unauthorized(authOut.result)

\* C8 amended: the expiry is the issue time plus 24 hours, and
\* validate_token more than 60 seconds (the validator's default leeway) after
\* the expiry never returns the claims: it returns Unauthorized when
\* JWT_SECRET is set and the environment error when it is not; up to 60
\* seconds after the expiry the token is still accepted under its secret.
C8_RejectedAfterLeeway ==
    /\ IssuedOk => issued.result.v.claims.exp = issued.at + 24 * 3600
    /\ (Validated /\ IssuedOk /\ authOut.how = "intact"
          /\ authOut.at > issued.result.v.claims.exp + 60) =>
          /\ ~authOut.result.ok
          /\ authOut.result.e.kind =
                IF authOut.env.some THEN "Unauthorized" ELSE "EnvError"
    /\ (Validated /\ IssuedOk /\ authOut.how = "intact"
          /\ authOut.env = issued.env
          /\ authOut.at <= issued.result.v.claims.exp + 60) =>
          authOut.result.ok

\* C8's case: the issued token is refused as expired under its own secret
C8_Witness ==
    /\ Validated /\ IssuedOk /\ authOut.how = "intact"
    /\ authOut.env = issued.env
    /\ authOut.at > issued.result.v.claims.exp + 60
    /\ authOut.result = Err(AppError("Unauthorized", "ExpiredSignature"))

\* whether the presented token is not one create_token produced under the
\* current secret: altered after issue, signed with another secret, or no
\* well-formed token
NotFromCurrentSecret ==
    \/ authOut.how \in {"payload", "exp", "signature", "alg_none",
                        "truncated", "empty"}
    \/ authOut.how = "resigned" /\ Some(authOut.key) # authOut.env
    \/ authOut.how = "intact" /\ (~IssuedOk \/ issued.env # authOut.env)

\* C9: with a secret configured, validate_token returns Unauthorized, never
\* claims, for every token not produced by create_token under that secret.
C9_ForgedRejected ==
    (Validated /\ authOut.env.some /\ NotFromCurrentSecret) =>
        Unauthorized(authOut.result)

\* C9's case: a token whose payload was altered after issue is refused
\* before its expiry, under the secret it was issued with
C9_Witness ==
    /\ Validated /\ IssuedOk /\ authOut.how = "payload"
    /\ authOut.env = issued.env
    /\ authOut.at <= issued.result.v.claims.exp
    /\ authOut.result = Err(AppError("Unauthorized", "InvalidSignature"))

\* C20: the signing secret is read once at process start: every create_token
\* and validate_token call has the outcome it has under the JWT_SECRET of
\* process start, whatever the environment holds at the time of the call.
C20_SecretReadOnce ==
    /\ issued.called =>
          issued.result = create_token(issued.user_id, issued.email,
                                       startSecret, issued.at)
    /\ Validated =>
          authOut.result = validate_token(authOut.token, startSecret, authOut.at)

-----------------------------------------------------------------------------
(* src/error.rs, and async_graphql::Error                                  *)

\* async_graphql::Error: a message and, when extensions were set, the value
\* of their "code" entry
GraphQLError(message, code) == [message |-> message, extensions |-> code]

\* impl fmt::Display for AppError
AppError_Display(e) ==
    CASE e.kind = "DatabaseError"        -> "Database error: " \o e.msg
      [] e.kind = "Unauthorized"         -> "Unauthorized: " \o e.msg
      [] e.kind = "Forbidden"            -> "Forbidden: " \o e.msg
      [] e.kind = "ValidationError"      -> "Validation error: " \o e.msg
      [] e.kind = "NotFound"             -> "Not found: " \o e.msg
      [] e.kind = "ExternalServiceError" -> "External service error: " \o e.msg
      [] e.kind = "InternalServerError"  -> "Internal server error: " \o e.msg

\* AppError::to_graphql_error
to_graphql_error(e) ==
    CASE e.kind = "ValidationError" -> GraphQLError(e.msg, Some("VALIDATION_ERROR"))
      [] e.kind = "NotFound"        -> GraphQLError(e.msg, Some("NOT_FOUND"))
      [] e.kind = "Unauthorized"    -> GraphQLError(e.msg, Some("UNAUTHORIZED"))
      [] e.kind = "Forbidden"       -> GraphQLError(e.msg, Some("FORBIDDEN"))
      [] e.kind \in {"DatabaseError", "ExternalServiceError",
                     "InternalServerError"}
                                    -> GraphQLError(e.msg, Some("INTERNAL_SERVER_ERROR"))

\* the conversion `?` applies to an AppError in a resolver returning
\* Result<_, async_graphql::Error>: From<T: Display>, the message is the
\* Display text and no extensions are set
Error_from(e) == GraphQLError(AppError_Display(e), None)

-----------------------------------------------------------------------------
(* The store: DynamoDB tables as src/db/init.rs provisions them and as the *)
(* resolvers' requests meet them                                           *)

\* the ids Uuid::new_v4 may draw
Uuids == {"u1", "u2", "u3"}

\* the Users table of ensure_users_table_exists: hash key "id", and the
\* global secondary index EmailIndex on "email"
UsersSchema == [key |-> "id", gsi |-> [x \in {"EmailIndex"} |-> "email"]]

\* the Users table of ensure_table_exists::users: hash key "user_id", and the
\* global secondary indexes EmailIndex on "email" and RoleIndex on "role"
UsersSchemaByUserId ==
    [key |-> "user_id",
     gsi |-> [x \in {"EmailIndex", "RoleIndex"} |->
                 IF x = "EmailIndex" THEN "email" ELSE "role"]]

\* the attribute name user_by_id builds its get_item key under
UserByIdKey == "id"

\* the attribute name delete_user builds its delete_item key under
DeleteUserKey == "email"

\* a request that did not get an answer, or got an error answer
Failed(code, items) == [io |-> Err(code), items |-> items]

\* put_item: the table must exist and the item must carry the table's key as
\* a string; the item replaces the item of the same key
PutItem(tbls, items, name, it, down) ==
    IF down THEN Failed("DispatchFailure", items)
    ELSE IF name \notin DOMAIN tbls
    THEN Failed("ResourceNotFoundException", items)
    ELSE IF ~get_s(it, tbls[name].key).some
    THEN Failed("ValidationException", items)
    ELSE [io |-> Ok("PutItemOutput"),
          items |-> {i \in items : i[tbls[name].key] # it[tbls[name].key]}
                        \cup {it}]

\* delete_item: the key given must be exactly the table's key schema; the
\* item of that key, if any, is removed
DeleteItem(tbls, items, name, key, down) ==
    IF down THEN Failed("DispatchFailure", items)
    ELSE IF name \notin DOMAIN tbls
    THEN Failed("ResourceNotFoundException", items)
    ELSE IF DOMAIN key # {tbls[name].key}
    THEN Failed("ValidationException", items)
    ELSE [io |-> Ok("DeleteItemOutput"),
          items |-> {i \in items : i[tbls[name].key] # key[tbls[name].key]}]

\* query on a global secondary index with `attr = :value`: the items whose
\* index key has that value, in no particular order
Query(tbls, items, name, index, value, down) ==
    IF down THEN Failed("DispatchFailure", {})
    ELSE IF name \notin DOMAIN tbls
    THEN Failed("ResourceNotFoundException", {})
    ELSE IF index \notin DOMAIN tbls[name].gsi
    THEN Failed("ValidationException", {})
    ELSE [io |-> Ok("QueryOutput"),
          items |-> {i \in items :
                        get_s(i, tbls[name].gsi[index]) = Some(value)}]

\* scan: every item of the table
Scan(tbls, items, name, down) ==
    IF down THEN Failed("DispatchFailure", {})
    ELSE IF name \notin DOMAIN tbls
    THEN Failed("ResourceNotFoundException", {})
    ELSE [io |-> Ok("ScanOutput"), items |-> items]

\* get_item: the key given must be exactly the table's key schema; the
\* answer lists the item of that key, if there is one
GetItem(tbls, items, name, key, down) ==
    IF down THEN Failed("DispatchFailure", {})
    ELSE IF name \notin DOMAIN tbls
    THEN Failed("ResourceNotFoundException", {})
    ELSE IF DOMAIN key # {tbls[name].key}
    THEN Failed("ValidationException", {})
    ELSE [io |-> Ok("GetItemOutput"),
          items |-> {i \in items : i[tbls[name].key] = key[tbls[name].key]}]

\* the clock reading of a resolver: the sub-second part is left at zero
Reading == [secs |-> now, frac |-> 0]

\* the resolvers that only read the store
ReadOps == {"user_by_email", "users", "user_by_id", "schema_rs_user_by_id",
            "schema_rs_user_by_email", "login"}

\* A read leaves the store as it is, so its outcome is recorded once after
\* each write, not after another read: the states reached are the same as
\* without this condition.
AfterWrite == ~(reply.called /\ reply.op \in ReadOps)

\* the ids already drawn
UsedIds ==
    {r.id : r \in returned} \cup {get_s(i, "id").v : i \in usersTable}

-----------------------------------------------------------------------------
(* src/db/init.rs                                                          *)

\* ensure_tables_exist: list_tables, then create_table for Users unless the
\* listing names it
ensure_tables_exist ==
    \E downList \in BOOLEAN, downCreate \in BOOLEAN :
        /\ tables' = IF ~downList /\ "Users" \notin DOMAIN tables /\ ~downCreate
                     THEN insert(tables, "Users", UsersSchema)
                     ELSE tables
        /\ reply' = [called |-> TRUE, op |-> "ensure_tables_exist",
                     result |-> IF downList
                                   \/ ("Users" \notin DOMAIN tables /\ downCreate)
                                THEN Err("DispatchFailure")
                                ELSE Ok("done")]
        /\ UNCHANGED <<now, usersTable, returned, modelVars, authVars, bootVars>>

\* ensure_table_exists::users: list_tables, then create_table for Users
\* unless the listing names it
ensure_table_exists_users ==
    \E downList \in BOOLEAN, downCreate \in BOOLEAN :
        /\ tables' = IF ~downList /\ "Users" \notin DOMAIN tables /\ ~downCreate
                     THEN insert(tables, "Users", UsersSchemaByUserId)
                     ELSE tables
        /\ reply' = [called |-> TRUE, op |-> "ensure_table_exists_users",
                     result |-> IF downList
                                   \/ ("Users" \notin DOMAIN tables /\ downCreate)
                                THEN Err(AppError("DatabaseError",
                                                  "DispatchFailure"))
                                ELSE Ok("unit")]
        /\ UNCHANGED <<now, usersTable, returned, modelVars, authVars, bootVars>>

-----------------------------------------------------------------------------
(* src/schema/mutation.rs and src/schema/query.rs                          *)

\* MutationRoot::create_user: the result of put_item is logged and dropped.
\* The salt of User::new is one sample here: no resolver compares hashes.
create_user ==
    \E email \in Emails, password \in Passwords, id \in Uuids \ UsedIds,
       hashErr \in BOOLEAN, down \in BOOLEAN :
        LET new == User_new(id, email, password, "Ann", "Lee", Reading, "s1",
                            hashErr)
            put == PutItem(tables, usersTable, "Users", User_to_item(new.v), down)
        IN  IF ~new.ok
            THEN /\ reply' = [called |-> TRUE, op |-> "create_user",
                              email |-> email, put_item_output |-> None,
                              result |-> Err(Error_from(
                                             AppError("DatabaseError", new.e)))]
                 /\ UNCHANGED <<now, tables, usersTable, returned,
                                modelVars, authVars, bootVars>>
            ELSE /\ usersTable' = put.items
                 /\ reply' = [called |-> TRUE, op |-> "create_user",
                              email |-> email, put_item_output |-> Some(put.io),
                              result |-> Ok(new.v)]
                 /\ returned' = returned \cup {[id |-> id, email |-> email]}
                 /\ UNCHANGED <<now, tables, modelVars, authVars, bootVars>>

\* a delete_user that removes the user only when the password verifies
\* against a stored user of that email
delete_user_checked(tbls, items, rets, email, password, down) ==
    LET del == DeleteItem(tbls, items, "Users",
                          insert(EmptyMap, DeleteUserKey, S(email)), down)
        verified == \E i \in items :
                       /\ get_s(i, "email") = Some(email)
                       /\ User_from_item(i, Reading).some
                       /\ verify_password(User_from_item(i, Reading).v, password)
    IN  IF ~verified
        THEN [items |-> items, io |-> Err("NotSent"), returned |-> rets,
              result |-> Err(to_graphql_error(AppError(
                                "Unauthorized", "wrong password")))]
        ELSE [items |-> del.items, io |-> del.io,
              returned |-> IF del.io.ok
                           THEN {r \in rets : r.email # email}
                           ELSE rets,
              result |-> IF del.io.ok
                         THEN Ok(email)
                         ELSE Err(to_graphql_error(AppError(
                                "DatabaseError",
                                "Failed to delete user by email from db")))]

\* what MutationRoot::delete_user does to the table and answers, given the
\* tables, the items of Users, the users returned so far and whether the
\* request gets through: delete_item with the key {"email": email}
delete_user_outcome(tbls, items, rets, email, password, down) ==
    LET del == DeleteItem(tbls, items, "Users",
                          insert(EmptyMap, DeleteUserKey, S(email)), down)
    IN  [items |-> del.items, io |-> del.io,
         returned |-> IF del.io.ok
                      THEN {r \in rets : r.email # email}
                      ELSE rets,
         result |-> IF del.io.ok
                    THEN Ok(email)
                    ELSE Err(to_graphql_error(AppError(
                           "DatabaseError",
                           "Failed to delete user by email from db")))]

\* MutationRoot::delete_user
delete_user ==
    \E email \in Emails, password \in Passwords, down \in BOOLEAN :
        LET o == delete_user_outcome(tables, usersTable, returned, email,
                                     password, down)
        IN  /\ usersTable' = o.items
            /\ reply' = [called |-> TRUE, op |-> "delete_user",
                         email |-> email, password |-> password,
                         down |-> down, io |-> o.io, result |-> o.result]
            /\ returned' = o.returned
            /\ UNCHANGED <<now, tables, modelVars, authVars, bootVars>>

\* what MutationRoot::login makes of the user_by_email lookup: the error is
\* passed on, and the body ends there, with neither a check of the password
\* nor a token
login_result(lookup) ==
    IF ~lookup.ok
    THEN [result |-> Err(lookup.e), id |-> None, token |-> None]
    ELSE [result |-> Ok("unit"), id |-> None, token |-> None]

\* a user_by_email that insists on the answer listing a single item
user_by_email_result_single(q, first) ==
    IF ~q.io.ok \/ Cardinality(q.items) # 1 \/ ~User_from_item(first, Reading).some
    THEN Err(to_graphql_error(AppError("DatabaseError",
                                       "No user found with that email address")))
    ELSE Ok(User_from_item(first, Reading).v)

\* what user_by_email makes of the answer to its query, `first` being the
\* item the answer lists first
user_by_email_result(q, first) ==
    IF ~q.io.ok
    THEN Err(to_graphql_error(AppError("DatabaseError",
                                       "Failed to get user by email from db")))
    ELSE IF q.items = {} \/ ~User_from_item(first, Reading).some
    THEN Err(to_graphql_error(AppError("DatabaseError",
                                       "No user found with that email address")))
    ELSE Ok(User_from_item(first, Reading).v)

\* QueryRoot::user_by_email: query EmailIndex, map the first item
user_by_email ==
    \E email \in Emails, down \in BOOLEAN :
        LET q == Query(tables, usersTable, "Users", "EmailIndex", email, down)
        IN  /\ AfterWrite
            /\ \E first \in (IF q.items = {} THEN {EmptyMap} ELSE q.items) :
                 reply' = [called |-> TRUE, op |-> "user_by_email",
                           email |-> email, io |-> q.io, found |-> q.items,
                           result |-> user_by_email_result(q, first)]
            /\ UNCHANGED <<now, tables, usersTable, returned, modelVars, authVars, bootVars>>

\* MutationRoot::login: the lookup of user_by_email, then login_result
login ==
    \E email \in Emails, password \in Passwords, down \in BOOLEAN :
        LET q == Query(tables, usersTable, "Users", "EmailIndex", email, down)
        IN  /\ AfterWrite
            /\ \E first \in (IF q.items = {} THEN {EmptyMap} ELSE q.items) :
                 LET out == login_result(user_by_email_result(q, first))
                 IN  reply' = [called |-> TRUE, op |-> "login",
                               email |-> email, password |-> password,
                               io |-> q.io, found |-> q.items,
                               result |-> out.result, id |-> out.id,
                               token |-> out.token]
            /\ UNCHANGED <<now, tables, usersTable, returned, modelVars, authVars, bootVars>>

\* the users that from_item makes of the items it can map
filter_map_from_item(items) ==
    {User_from_item(i, Reading).v :
        i \in {j \in items : User_from_item(j, Reading).some}}

\* what users makes of the answer to its scan
users_result(sc) ==
    IF ~sc.io.ok
    THEN Err(to_graphql_error(AppError("DatabaseError",
                                       "Failed to get all users from db")))
    ELSE Ok(filter_map_from_item(sc.items))

\* QueryRoot::users: scan, map every item that maps
users ==
    \E down \in BOOLEAN :
        LET sc == Scan(tables, usersTable, "Users", down)
        IN  /\ AfterWrite
            /\ reply' = [called |-> TRUE, op |-> "users", io |-> sc.io,
                         found |-> sc.items, result |-> users_result(sc)]
            /\ UNCHANGED <<now, tables, usersTable, returned, modelVars, authVars, bootVars>>

\* what user_by_id makes of the answer to its get_item: the missing item is
\* an AppError converted by `?`, the unmappable one goes through
\* to_graphql_error
user_by_id_result(g) ==
    IF ~g.io.ok
    THEN Err(to_graphql_error(AppError("DatabaseError",
                                       "Failed to get user by id from db")))
    ELSE IF g.items = {}
    THEN Err(Error_from(AppError("DatabaseError", "No user found with that ID")))
    ELSE LET it == CHOOSE i \in g.items : TRUE
         IN  IF ~User_from_item(it, Reading).some
             THEN Err(to_graphql_error(AppError("DatabaseError",
                                                "No user found with that ID")))
             ELSE Ok(User_from_item(it, Reading).v)

\* the ids a caller may ask for: drawn ones, and those of items other
\* writers put
LookupIds == Uuids \cup {"x1"}

\* QueryRoot::user_by_id: get_item with the key {"id": user_id}
user_by_id ==
    \E user_id \in LookupIds, down \in BOOLEAN :
        LET g == GetItem(tables, usersTable, "Users",
                         insert(EmptyMap, UserByIdKey, S(user_id)), down)
        IN  /\ AfterWrite
            /\ reply' = [called |-> TRUE, op |-> "user_by_id",
                         user_id |-> user_id, io |-> g.io, found |-> g.items,
                         result |-> user_by_id_result(g)]
            /\ UNCHANGED <<now, tables, usersTable, returned, modelVars, authVars, bootVars>>

-----------------------------------------------------------------------------
(* src/schema.rs: the resolvers returning Option<User>                     *)

\* what schema.rs's user_by_id makes of the answer to its get_item
schema_rs_user_by_id_result(g) ==
    IF ~g.io.ok
    THEN Err(to_graphql_error(AppError("DatabaseError",
                                       "Failed to get user by id from db")))
    ELSE IF g.items = {}
    THEN Ok(None)
    ELSE Ok(User_from_item(CHOOSE i \in g.items : TRUE, Reading))

\* schema.rs, QueryRoot::user_by_id
schema_rs_user_by_id ==
    \E user_id \in LookupIds, down \in BOOLEAN :
        LET g == GetItem(tables, usersTable, "Users",
                         insert(EmptyMap, UserByIdKey, S(user_id)), down)
        IN  /\ AfterWrite
            /\ reply' = [called |-> TRUE, op |-> "schema_rs_user_by_id",
                         user_id |-> user_id, io |-> g.io, found |-> g.items,
                         result |-> schema_rs_user_by_id_result(g)]
            /\ UNCHANGED <<now, tables, usersTable, returned, modelVars, authVars, bootVars>>

\* what schema.rs's user_by_email makes of the answer to its query
schema_rs_user_by_email_result(q, first) ==
    IF ~q.io.ok
    THEN Err(to_graphql_error(AppError("DatabaseError",
                                       "Failed to get user by email from db")))
    ELSE IF q.items = {}
    THEN Ok(None)
    ELSE Ok(User_from_item(first, Reading))

\* schema.rs, QueryRoot::user_by_email
schema_rs_user_by_email ==
    \E email \in Emails, down \in BOOLEAN :
        LET q == Query(tables, usersTable, "Users", "EmailIndex", email, down)
        IN  /\ AfterWrite
            /\ \E first \in (IF q.items = {} THEN {EmptyMap} ELSE q.items) :
                 reply' = [called |-> TRUE, op |-> "schema_rs_user_by_email",
                           email |-> email, io |-> q.io, found |-> q.items,
                           result |-> schema_rs_user_by_email_result(q, first)]
            /\ UNCHANGED <<now, tables, usersTable, returned, modelVars, authVars, bootVars>>

-----------------------------------------------------------------------------
(* The store's other clients                                               *)

\* an item put by a writer other than this program: the table's key, and
\* nothing else
OtherItems == {insert(EmptyMap, "id", S("x1"))}

\* another client of the store puts an item into the Users table
OtherWriterPut ==
    \E it \in OtherItems :
        LET put == PutItem(tables, usersTable, "Users", it, FALSE)
        IN  /\ put.io.ok
            /\ it \notin usersTable
            /\ usersTable' = put.items
            /\ reply' = NoCall
            /\ UNCHANGED <<now, tables, returned, modelVars, authVars, bootVars>>

InitStore ==
    /\ now = StartTime
    /\ tables = EmptyMap
    /\ usersTable = {}
    /\ returned = {}
    /\ reply = NoCall
    /\ InitModelIdle
    /\ InitAuthIdle
    /\ InitBootIdle

Init == InitStore

Next ==
    \/ ensure_tables_exist
    \/ ensure_table_exists_users
    \/ create_user
    \/ delete_user
    \/ login
    \/ user_by_email
    \/ users
    \/ user_by_id
    \/ schema_rs_user_by_id
    \/ schema_rs_user_by_email
    \/ OtherWriterPut

Spec == Init /\ [][Next]_vars

-----------------------------------------------------------------------------
(* Claims about the resolvers (Spec)                                       *)

Replied(op) == reply.called /\ reply.op = op

\* whether an item with this email is among the items
StoredIn(items, email) == \E i \in items : get_s(i, "email") = Some(email)

\* C3: whenever the put_item round-trip of create_user fails, create_user
\* returns an error to the caller and not a User.
C3_CreateSurfacesPutFailure ==
    (Replied("create_user") /\ reply.put_item_output.some
       /\ ~reply.put_item_output.v.ok) =>
        ~reply.result.ok

\* C4: after create_user with email e has returned a User, and with no
\* delete_user(e) since, a user_by_email(e) whose query was answered returns
\* a user with the id and email create_user returned.
C4_CreateThenLookup ==
    (Replied("user_by_email") /\ reply.io.ok) =>
        \A r \in returned :
            r.email = reply.email =>
                /\ reply.result.ok
                /\ reply.result.v.id = r.id
                /\ reply.result.v.email = r.email

\* C5: delete_user(e), called while a user with email e is stored and the
\* Users table is reachable, succeeds and leaves no item with email e.
C5_DeleteRemoves ==
    [][(/\ reply'.called /\ reply'.op = "delete_user"
        /\ reply'.io # Err("DispatchFailure")
        /\ StoredIn(usersTable, reply'.email))
          => (reply'.result.ok /\ ~StoredIn(usersTable', reply'.email))]_vars

\* whether from_item can map the item
Mappable(i) == User_from_item(i, Reading).some

\* the answer of get_item for a key no item has
NoItem == [io |-> Ok("GetItemOutput"), items |-> {}]

\* a storage request that did not get through
Unreached == Failed("DispatchFailure", {})

\* C15: users returns exactly the stored items that from_item can map,
\* skipping the others without failing; user_by_id on an existing item that
\* from_item cannot map returns an error outcome different from the outcome
\* for an id with no item.
C15_SkipOrStorageError ==
    /\ (Replied("users") /\ reply.io.ok) =>
          /\ reply.result.ok
          /\ \A i \in usersTable :
                Mappable(i) => User_from_item(i, Reading).v \in reply.result.v
          /\ \A u \in reply.result.v :
                \E i \in usersTable : User_from_item(i, Reading) = Some(u)
    /\ (Replied("user_by_id") /\ reply.io.ok /\ reply.found # {}
          /\ \A i \in reply.found : ~Mappable(i)) =>
          /\ ~reply.result.ok
          /\ reply.result # user_by_id_result(NoItem)
    /\ (Replied("schema_rs_user_by_id") /\ reply.io.ok /\ reply.found # {}
          /\ \A i \in reply.found : ~Mappable(i)) =>
          /\ ~reply.result.ok
          /\ reply.result # schema_rs_user_by_id_result(NoItem)

\* the kind of an outcome: the code of an error, "none" for an error
\* without one, "ok" for a value
Kind(r) ==
    IF r.ok THEN "ok"
    ELSE IF r.e.extensions.some THEN r.e.extensions.v ELSE "none"

\* C16: for user_by_id and user_by_email, a lookup that matches no item has
\* an outcome whose kind differs from the kind of the error produced when
\* the storage round-trip fails.
C16_NotFoundKindDiffers ==
    /\ (Replied("user_by_id") /\ reply.io.ok /\ reply.found = {}) =>
          Kind(reply.result) # Kind(user_by_id_result(Unreached))
    /\ (Replied("user_by_email") /\ reply.io.ok /\ reply.found = {}) =>
          Kind(reply.result) # Kind(user_by_email_result(Unreached, EmptyMap))

\* C17: every error returned by users, user_by_id, user_by_email,
\* create_user or delete_user carries a code extension and a message.
C17_ErrorsCarryKind ==
    (reply.called
       /\ reply.op \in {"users", "user_by_id", "user_by_email", "create_user",
                         "delete_user"}
       /\ ~reply.result.ok) =>
        /\ reply.result.e.extensions.some
        /\ reply.result.e.message # ""

\* C18: in every reachable state of the Users table no two stored users
\* have the same email.
C18_EmailUnique ==
    \A i, j \in usersTable :
        (Mappable(i) /\ Mappable(j) /\ get_s(i, "email") = get_s(j, "email")) =>
            i = j

\* the stored users with this email
UsersWithEmail(email) ==
    {User_from_item(i, Reading).v :
        i \in {j \in usersTable : Mappable(j) /\ get_s(j, "email") = Some(email)}}

Verifying(email, password) ==
    {i \in usersTable :
        /\ get_s(i, "email") = Some(email)
        /\ Mappable(i)
        /\ verify_password(User_from_item(i, Reading).v, password)}

\* C24: login(email, password) returns the stored user's id together with a
\* fresh token when a user of that email is stored and the password
\* verifies against its hash, and an Unauthorized error without a token
\* otherwise.
C24_LoginVerifies ==
    Replied("login") =>
        IF reply.io.ok /\ Verifying(reply.email, reply.password) # {}
        THEN /\ reply.result.ok
             /\ reply.token.some
             /\ reply.id \in {get_s(i, "id") :
                                i \in Verifying(reply.email, reply.password)}
        ELSE /\ ~reply.result.ok
             /\ Kind(reply.result) = "UNAUTHORIZED"
             /\ ~reply.token.some

\* C28: every item create_user puts carries the partition key of the Users
\* table as provisioned, and that attribute name is the one user_by_id looks
\* up under and the one delete_user deletes under.
C28_KeyNamesAgree ==
    (Replied("create_user") /\ reply.put_item_output.some
       /\ "Users" \in DOMAIN tables) =>
        /\ tables["Users"].key \in DOMAIN User_to_item(reply.result.v)
        /\ tables["Users"].key = UserByIdKey
        /\ tables["Users"].key = DeleteUserKey

\* C30: what a delete_user call answers and does to the table is what it
\* would have answered and done with any other password argument.
C30_PasswordIgnored ==
    [][(reply'.called /\ reply'.op = "delete_user") =>
          \A p \in Passwords :
              LET o == delete_user_outcome(tables, usersTable, returned,
                                           reply'.email, p, reply'.down)
              IN  /\ usersTable' = o.items
                  /\ returned' = o.returned
                  /\ reply'.result = o.result]_vars

\* delete_user called with a password that is not the stored user's
C30_Witness ==
    /\ Replied("delete_user")
    /\ StoredIn(usersTable, reply.email)
    /\ Verifying(reply.email, reply.password) = {}
    /\ \E p \in Passwords : Verifying(reply.email, p) # {}

-----------------------------------------------------------------------------
(* src/main.rs and src/db.rs: the start of the process, and the create_user *)
(* of main.rs's MutationRoot on the counter of AppState                     *)

\* the values DB_URL may have
DbUrls == {"http://localhost:8000"}

\* the usernames create_user may be given
Usernames == {"ann", "bob"}

\* db::setup_local_client, given the environment's DB_URL
setup_local_client(env) ==
    IF env.some THEN Ok("Client") ELSE Err(AppError("EnvError", "NotPresent"))

\* main up to the client: exit(1) when setup_local_client fails
main_setup ==
    /\ phase = "starting"
    /\ phase' = IF setup_local_client(dbUrl).ok THEN "configured" ELSE "exited"
    /\ UNCHANGED <<now, dbUrl, next_user_id, id_guard, calls,
                   modelVars, authVars, storeVars, provVars>>

\* main from the state to the listener: AppState with Mutex::new(1337), the
\* schema and the router are built, then the port is bound; exit(1) when
\* bind fails
main_bind ==
    /\ phase = "configured"
    /\ \E bound \in BOOLEAN :
         phase' = IF bound THEN "serving" ELSE "exited"
    /\ next_user_id' = FirstUserId
    /\ UNCHANGED <<now, dbUrl, id_guard, calls,
                   modelVars, authVars, storeVars, provVars>>

\* axum::serve returns an error: exit(1)
main_serve_fails ==
    /\ phase = "serving"
    /\ phase' = "exited"
    /\ UNCHANGED <<now, dbUrl, next_user_id, id_guard, calls,
                   modelVars, authVars, storeVars, provVars>>

\* a lock() that returns at once, whoever holds the mutex
lock_never_waits(guard) == TRUE

\* Mutex::lock returns when no other call holds the mutex
lock_acquires(guard) == ~guard.some

\* a create_user request arrives
main_create_user_call(c) ==
    /\ phase = "serving"
    /\ calls[c].pc = "idle"
    /\ \E username \in Usernames :
         calls' = [calls EXCEPT ![c].pc = "called", ![c].username = username]
    /\ UNCHANGED <<now, dbUrl, phase, next_user_id, id_guard,
                   modelVars, authVars, storeVars, provVars>>

\* create_user: state.next_user_id.lock().unwrap()
main_create_user_lock(c) ==
    /\ phase = "serving"
    /\ calls[c].pc = "called"
    /\ lock_acquires(id_guard)
    /\ id_guard' = Some(c)
    /\ calls' = [calls EXCEPT
                   ![c].pc = "locked",
                   ![c].order = 1 + Cardinality({d \in Callers :
                                                    calls[d].order > 0})]
    /\ UNCHANGED <<now, dbUrl, phase, next_user_id,
                   modelVars, authVars, storeVars, provVars>>

\* create_user: let id = *id_guard
main_create_user_read(c) ==
    /\ phase = "serving"
    /\ calls[c].pc = "locked"
    /\ calls' = [calls EXCEPT ![c].pc = "read", ![c].id = next_user_id]
    /\ UNCHANGED <<now, dbUrl, phase, next_user_id, id_guard,
                   modelVars, authVars, storeVars, provVars>>

\* create_user: *id_guard += 1, then User { id, username } is returned and
\* the guard dropped. No other call can read the counter between the
\* increment and the drop, so the two are one step.
main_create_user_return(c) ==
    /\ phase = "serving"
    /\ calls[c].pc = "read"
    /\ next_user_id' = next_user_id + 1
    /\ id_guard' = None
    /\ calls' = [calls EXCEPT ![c].pc = "done"]
    /\ UNCHANGED <<now, dbUrl, phase, modelVars, authVars, storeVars, provVars>>

InitMain ==
    /\ now = StartTime
    /\ dbUrl \in {None} \cup {Some(u) : u \in DbUrls}
    /\ phase = "starting"
    /\ next_user_id = FirstUserId
    /\ id_guard = None
    /\ calls = [c \in Callers |-> IdleCall]
    /\ secret \in {None} \cup {Some(k) : k \in Secrets}
    /\ startSecret = secret
    /\ issued = NoCall
    /\ authOut = NoCall
    /\ InitModelIdle
    /\ InitStoreIdle
    /\ InitProvIdle

NextMain ==
    \/ main_setup
    \/ main_bind
    \/ main_serve_fails
    \/ \E c \in Callers : main_create_user_call(c)
    \/ \E c \in Callers : main_create_user_lock(c)
    \/ \E c \in Callers : main_create_user_read(c)
    \/ \E c \in Callers : main_create_user_return(c)

SpecMain == InitMain /\ [][NextMain]_vars

-----------------------------------------------------------------------------
(* Claims about the start of the process and main.rs's create_user         *)
(* (SpecMain)                                                              *)

\* C21: the process does not reach the serving state when DB_URL or
\* JWT_SECRET is absent at startup: it exits before it listens.
C21_NoServingWithoutConfig ==
    phase = "serving" => (dbUrl.some /\ startSecret.some)

\* C22: no request-handling operation reads or changes state shared within
\* the process: there is no process-wide counter that a step changes and no
\* lock on one that a step takes.
C22_NoSharedState ==
    [][next_user_id' = next_user_id /\ id_guard' = id_guard]_vars

\* the create_user calls that have returned
Completed == {c \in Callers : calls[c].pc = "done"}

\* C29: under every interleaving of create_user calls of main.rs, the calls
\* return distinct ids, the k-th call to acquire the lock returns
\* 1337 + (k - 1), and the counter is 1337 plus the number of calls that
\* have returned.
C29_DistinctIds ==
    /\ \A c \in Completed : calls[c].id = FirstUserId + (calls[c].order - 1)
    /\ \A c, d \in Completed : c # d => calls[c].id # calls[d].id
    /\ next_user_id = FirstUserId + Cardinality(Completed)

\* every call has returned, and a call made later than another took the
\* lock first
C29_Witness ==
    /\ Completed = Callers
    /\ calls[MaxCallers].order = 1
    /\ calls[MaxCallers].id = FirstUserId
    /\ calls[1].id = FirstUserId + MaxCallers - 1

-----------------------------------------------------------------------------
(* src/db/init.rs and src/db/ensure_table_exists.rs: two service instances *)
(* that list the tables and then provision one                             *)

\* the PantrySystem table of ensure_table_exists::pantry_system: hash key
\* "PK", range key "SK", four global secondary indexes
PantrySystemSchema ==
    [key |-> "PK", range |-> "SK",
     gsi |-> [x \in {"UserAccessIndex", "PantryManagementIndex",
                     "SelfManagedPantryIndex", "EmailLookupIndex"} |->
                 CASE x = "UserAccessIndex"        -> "USER_ID"
                   [] x = "PantryManagementIndex"  -> "PK"
                   [] x = "SelfManagedPantryIndex" -> "is_self_managed"
                   [] x = "EmailLookupIndex"       -> "email"]]

\* the provisioning functions
ProvisioningFns == {"ensure_users_table_exists", "users", "pantry_system"}

\* the table each function provisions
table_name(fn) == IF fn = "pantry_system" THEN "PantrySystem" ELSE "Users"

\* the schema each function asks for
TableSchema(fn) ==
    CASE fn = "ensure_users_table_exists" -> UsersSchema
      [] fn = "users"                     -> UsersSchemaByUserId
      [] fn = "pantry_system"             -> PantrySystemSchema

\* the error a provisioning function returns for a failed create_table:
\* init.rs passes the SDK's error on, ensure_table_exists.rs wraps it
ProvisionError(fn, code) ==
    IF fn = "ensure_users_table_exists"
    THEN Err(code)
    ELSE Err(AppError("DatabaseError", code))

\* a provisioning function, given the listing it was handed, the tables
\* there are when its request arrives and whether the request gets through:
\* whether a create_table request was sent, the tables after, the result
provision(fn, listing, tbls, down) ==
    IF table_name(fn) \in listing
    THEN [sent |-> FALSE, tables |-> tbls, result |-> Ok("unit")]
    ELSE IF down
    THEN [sent |-> FALSE, tables |-> tbls,
          result |-> ProvisionError(fn, "DispatchFailure")]
    ELSE IF table_name(fn) \in DOMAIN tbls
    THEN [sent |-> TRUE, tables |-> tbls,
          result |-> ProvisionError(fn, "ResourceInUseException")]
    ELSE [sent |-> TRUE, tables |-> insert(tbls, table_name(fn), TableSchema(fn)),
          result |-> Ok("unit")]

\* client.list_tables().send(): the instance learns the names of the tables
\* there are, or the request fails and nothing is provisioned
list_tables(i) ==
    /\ prov[i].pc = "idle"
    /\ \E fn \in ProvisioningFns, down \in BOOLEAN :
         prov' = [prov EXCEPT ![i] =
                    IF down
                    THEN [pc |-> "done", fn |-> fn, listing |-> {},
                          result |-> Err("DispatchFailure")]
                    ELSE [pc |-> "listed", fn |-> fn,
                          listing |-> DOMAIN tables, result |-> NoCall]]
    /\ UNCHANGED <<now, requests, modelVars, authVars, storeVars, mainVars>>

\* the instance runs its provisioning function on the listing it holds
CallProvision(i) ==
    /\ prov[i].pc = "listed"
    /\ \E down \in BOOLEAN :
         LET out == provision(prov[i].fn, prov[i].listing, tables, down)
         IN  /\ tables' = out.tables
             /\ requests' =
                  IF out.sent
                  THEN requests \cup
                         {[instance |-> i, table |-> table_name(prov[i].fn),
                           listed |-> table_name(prov[i].fn) \in prov[i].listing,
                           existed |-> table_name(prov[i].fn) \in DOMAIN tables]}
                  ELSE requests
             /\ prov' = [prov EXCEPT ![i].pc = "done", ![i].result = out.result]
    /\ UNCHANGED <<now, usersTable, returned, reply, modelVars, authVars,
                   mainVars>>

InitProvision ==
    /\ now = StartTime
    /\ InitModelIdle
    /\ InitAuthIdle
    /\ InitStoreIdle
    /\ InitMainIdle
    /\ InitProvIdle

NextProvision ==
    \/ \E i \in Instances : list_tables(i)
    \/ \E i \in Instances : CallProvision(i)

SpecProvision == InitProvision /\ [][NextProvision]_vars

\* C27: no create_table request is sent for a table that exists: a
\* provisioning function handed a listing with its table's name returns Ok
\* and sends nothing, and no request of either instance meets its table.
C27_NoCreateForExisting ==
    /\ \A r \in requests : ~r.listed /\ ~r.existed
    /\ \A i \in Instances :
         (prov[i].pc = "done" /\ table_name(prov[i].fn) \in prov[i].listing) =>
             prov[i].result.ok

-----------------------------------------------------------------------------
(* SpecTokens: create_token and validate_token while the Users table       *)
(* changes under them                                                      *)

\* a user as create_user stores it
StoredUser(id, password) ==
    User_to_item(User_new(id, "a@b.com", password, "Ann", "Lee",
                          [secs |-> StartTime, frac |-> 0], "s1", FALSE).v)

\* the items the Users table may hold: a user under either password, and
\* another user
SampleUserItems ==
    {StoredUser("u1", p) : p \in Passwords} \cup {StoredUser("u2", "pw1")}

\* the contents of a table keyed by id
TableContents ==
    {T \in SUBSET SampleUserItems :
        \A i, j \in T : get_s(i, "id") = get_s(j, "id") => i = j}

\* the Users table changes: users are put, removed, or stored again under a
\* new password hash, by this program or by another client of the store
StoreChanges ==
    /\ usersTable' \in TableContents \ {usersTable}
    /\ UNCHANGED <<now, tables, returned, reply, modelVars, authVars, bootVars>>

InitTokens ==
    /\ now = StartTime
    /\ secret \in {None} \cup {Some(k) : k \in Secrets}
    /\ startSecret = secret
    /\ issued = NoCall
    /\ authOut = NoCall
    /\ tables = insert(EmptyMap, "Users", UsersSchema)
    /\ usersTable \in TableContents
    /\ returned = {}
    /\ reply = NoCall
    /\ InitModelIdle
    /\ InitBootIdle

NextTokens ==
    \/ StoreChanges
    \/ CallCreateToken
    \/ CallValidateToken
    \/ TickAuth

SpecTokens == InitTokens /\ [][NextTokens]_vars

\* C25: whatever the Users table holds, an issued token presented under its
\* secret up to its expiry is accepted with the claims it was issued with,
\* and the outcome on record is the outcome of validate_token for the same
\* token, secret and time under the table as it is now.
C25_TokenOutlivesUser ==
    /\ (Validated /\ IssuedOk /\ authOut.how = "intact"
          /\ authOut.env = issued.env /\ authOut.at <= issued.at + TokenTTL) =>
          /\ authOut.result.ok
          /\ authOut.result.v = issued.result.v.claims
    /\ Validated =>
          authOut.result = validate_token(authOut.token, authOut.env, authOut.at)

\* a token issued for a stored user is accepted after the user was removed
C25_Witness ==
    /\ Validated /\ IssuedOk /\ authOut.how = "intact"
    /\ authOut.result.ok
    /\ issued.subject # {}
    /\ authOut.at > issued.at
    /\ ~\E i \in usersTable : get_s(i, "id") = Some(issued.user_id)

====
